---- MODULE Spec2Model ----
(***************************************************************************)
(* Model of the type-definition registry of packages.go:                  *)
(* PackagesDefinitions with CollectAstFile, RangeFiles, ParseTypes and    *)
(* FindTypeSpec.                                                          *)
(*                                                                        *)
(* A Go string is a sequence of runes, written here as a tuple of         *)
(* one-rune strings, so that concatenation, Split, Trim and ContainsRune  *)
(* are computed and not assumed.  A file path is only ever used as a map  *)
(* key or handed back to the caller, so it stays an opaque string.        *)
(* A pointer is the identity of what it points to: an *ast.File is a      *)
(* handle of AstFiles, a *ast.TypeSpec is the position of the spec in its *)
(* file, and a *TypeSpecDef carries the number of the ParseTypes call     *)
(* that allocated it (field inst).                                        *)
(***************************************************************************)
EXTENDS Integers, Sequences, FiniteSets, TLC

\* ------------------------------------------------------------- bounds
\* Number of CollectAstFile calls explored.
MaxCollect == 3
\* Number of ParseTypes calls explored.
MaxParse == 2

\* ------------------------------------------------------------- strings
Dot == "."
Quote == "\""

models == <<"m">>
handlers == <<"h">>
User == <<"U">>
Level == <<"L">>
int == <<"i", "n", "t">>
pathA == <<"a">>
pathB == <<"b">>
pathC == <<"c">>
Empty == <<>>

\* strings.ContainsRune(s, r)
ContainsRune(s, r) ==
    \E i \in 1..Len(s) : s[i] = r

RECURSIVE SplitFrom(_, _, _, _)
SplitFrom(s, sep, i, cur) ==
    IF i > Len(s) THEN <<cur>>
    ELSE IF s[i] = sep THEN <<cur>> \o SplitFrom(s, sep, i + 1, <<>>)
    ELSE SplitFrom(s, sep, i + 1, Append(cur, s[i]))

\* strings.Split(s, sep) for a one-rune separator
Split(s, sep) ==
    SplitFrom(s, sep, 1, <<>>)

RECURSIVE TrimLeft(_, _)
TrimLeft(s, r) ==
    IF Len(s) > 0 /\ s[1] = r THEN TrimLeft(Tail(s), r) ELSE s

RECURSIVE TrimRight(_, _)
TrimRight(s, r) ==
    IF Len(s) > 0 /\ s[Len(s)] = r THEN TrimRight(SubSeq(s, 1, Len(s) - 1), r) ELSE s

\* strings.Trim(s, cutset) for a one-rune cutset
Trim(s, r) ==
    TrimRight(TrimLeft(s, r), r)

\* ------------------------------------------------------------- maps
\* m[k] = v on a Go map
Put(f, k, v) ==
    [x \in DOMAIN f \cup {k} |-> IF x = k THEN v ELSE f[x]]

\* delete(m, k) on a Go map
Delete(f, k) ==
    [x \in DOMAIN f \ {k} |-> f[x]]

\* make(map[..]..): a nil map and an empty map read alike
EmptyMap == <<>>

\* ------------------------------------------------------------- parsed files
\* An import spec: Name is Nil (no name), or an alias, "_" or "."; Path is the
\* raw literal, quotes included.
Nil == <<"<nil>">>

\* The name of an import kept for its side effects only.
Blank == <<"_">>

Imp(name, path) ==
    [Name |-> name, Path |-> <<Quote>> \o path \o <<Quote>>]

\* A type spec: its name and its underlying type expression.
StructSpec(name) ==
    [Name |-> name, Type |-> [Kind |-> "StructType", Name |-> Empty]]

IdentSpec(name, ident) ==
    [Name |-> name, Type |-> [Kind |-> "Ident", Name |-> ident]]

TypeDecl(specs) ==
    [Kind |-> "GenDecl", Tok |-> "TYPE", Specs |-> specs]

FuncDecl ==
    [Kind |-> "FuncDecl", Tok |-> "FUNC", Specs |-> <<>>]

\* The parsed files the host may hand over (the *ast.File values).
AstFiles ==
    [ u1 |-> [Name |-> models, Imports |-> <<>>,
              Decls |-> <<TypeDecl(<<StructSpec(User)>>)>>],
      u2 |-> [Name |-> models, Imports |-> <<Imp(Nil, pathA)>>,
              Decls |-> <<TypeDecl(<<StructSpec(User)>>)>>],
      u3 |-> [Name |-> models, Imports |-> <<Imp(Blank, pathA)>>,
              Decls |-> <<FuncDecl, TypeDecl(<<StructSpec(User), IdentSpec(Level, int)>>)>>],
      u4 |-> [Name |-> handlers, Imports |-> <<Imp(Nil, pathA)>>,
              Decls |-> <<TypeDecl(<<StructSpec(User), StructSpec(int)>>)>>],
      u5 |-> [Name |-> handlers, Imports |-> <<>>,
              Decls |-> <<FuncDecl>>],
      u6 |-> [Name |-> models,
              Imports |-> <<Imp(Nil, pathA), Imp(models, pathC),
                            Imp(Blank, pathB), Imp(<<Dot>>, pathB)>>,
              Decls |-> <<FuncDecl>>] ]

Handles == DOMAIN AstFiles

\* The calls of CollectAstFile(packageDir, path, astFile) explored.
CollectInputs ==
    { <<pathA, "a/f1.go", "u1">>,
      <<pathB, "b/f1.go", "u2">>,
      <<pathC, "c/f1.go", "u3">>,
      <<pathA, "a/f2.go", "u3">>,
      <<pathA, "a/f1.go", "u3">>,
      <<Empty, "s/f1.go", "u3">>,
      <<pathB, "b/f2.go", "u4">>,
      <<pathA, "a/f2.go", "u4">>,
      <<Empty, "s/f2.go", "u5">>,
      <<pathC, "c/f2.go", "u6">> }

\* ------------------------------------------------------------- state
VARIABLES
    files,              \* pkgs.files: handle -> AstFileInfo
    packages,           \* pkgs.packages: package path -> PackageDefinitions
    uniqueDefinitions,  \* pkgs.uniqueDefinitions: full name -> TypeSpecDef
    uniqueNil,          \* pkgs.uniqueDefinitions == nil
    parsed,             \* what the last ParseTypes call returned
    nCollect,           \* CollectAstFile calls so far
    nParse,             \* ParseTypes calls so far
    firstName,          \* history: package path -> Name of the first file collected under it
    okRuns,             \* history: ParseTypes calls that returned normally since the last CollectAstFile
    mixed,              \* history: a CollectAstFile call came after a ParseTypes call
    before,             \* history: pkgs.packages at the start of the last ParseTypes call
    answer              \* the last FindTypeSpec call and what it returned

vars == <<files, packages, uniqueDefinitions, uniqueNil, parsed, nCollect, nParse,
          firstName, okRuns, mixed, before, answer>>

\* No FindTypeSpec call yet.
NoAnswer == [none |-> TRUE]

\* ------------------------------------------------------------- helpers of the package
\* fullTypeName(pkgName, typeName): the key of the index, pkgName.typeName
fullTypeName(pkgName, typeName) ==
    pkgName \o <<Dot>> \o typeName

\* IsGolangPrimitiveType(typeName)
PrimitiveNames ==
    {int, <<"s", "t", "r", "i", "n", "g">>, <<"b", "o", "o", "l">>}

IsGolangPrimitiveType(typeName) ==
    typeName \in PrimitiveNames

\* TransToValidSchemeType(typeName): the schema type of a primitive
TransToValidSchemeType(typeName) ==
    CASE typeName = int -> "integer"
      [] typeName = <<"b", "o", "o", "l">> -> "boolean"
      [] OTHER -> "string"

\* The *ast.TypeSpec at position pos = <<i, j>> of a file
TypeSpecAt(astFile, pos) ==
    AstFiles[astFile].Decls[pos[1]].Specs[pos[2]]

\* &TypeSpecDef{PkgPath, File, TypeSpec}, allocated by ParseTypes call number run
NewTypeSpecDef(info, astFile, pos, run) ==
    [PkgPath |-> info.PackagePath, File |-> astFile, TypeSpec |-> pos, inst |-> run]

\* TypeSpecDef.Name()
Name(typeSpecDef) ==
    TypeSpecAt(typeSpecDef.File, typeSpecDef.TypeSpec).Name

\* TypeSpecDef.FullName()
FullName(typeSpecDef) ==
    fullTypeName(AstFiles[typeSpecDef.File].Name, Name(typeSpecDef))

\* ------------------------------------------------------------- CollectAstFile
\* A plausible slip: a later file of the package resets the package's Name.
CollectPackageRenames(pkgs, packageDir, path, astFile) ==
    IF packageDir \in DOMAIN pkgs
    THEN Put(pkgs, packageDir,
             [pkgs[packageDir] EXCEPT !.Name = AstFiles[astFile].Name,
                                      !.Files = Put(@, path, astFile)])
    ELSE Put(pkgs, packageDir,
             [Name |-> AstFiles[astFile].Name,
              Files |-> Put(EmptyMap, path, astFile),
              TypeDefinitions |-> EmptyMap])

\* The package record after a file is collected under a non-empty packageDir.
CollectPackage(pkgs, packageDir, path, astFile) ==
    IF packageDir \in DOMAIN pkgs
    THEN Put(pkgs, packageDir,
             [pkgs[packageDir] EXCEPT !.Files = Put(@, path, astFile)])
    ELSE Put(pkgs, packageDir,
             [Name |-> AstFiles[astFile].Name,
              Files |-> Put(EmptyMap, path, astFile),
              TypeDefinitions |-> EmptyMap])

\* A plausible slip: the early return for an empty packageDir is missing, and a
\* package record is kept under the empty path.
CollectAstFileNoEarlyReturn(packageDir, path, astFile) ==
    /\ nCollect < MaxCollect
    /\ files' = Put(files, astFile,
                    [File |-> astFile, Path |-> path, PackagePath |-> packageDir])
    /\ packages' = CollectPackage(packages, packageDir, path, astFile)
    /\ nCollect' = nCollect + 1
    /\ firstName' = IF packageDir \in DOMAIN firstName
                    THEN firstName
                    ELSE Put(firstName, packageDir, AstFiles[astFile].Name)
    /\ okRuns' = 0
    /\ mixed' = (mixed \/ nParse > 0)
    /\ answer' = NoAnswer
    /\ UNCHANGED <<uniqueDefinitions, uniqueNil, parsed, nParse, before>>

CollectAstFile(packageDir, path, astFile) ==
    /\ nCollect < MaxCollect
    /\ files' = Put(files, astFile,
                    [File |-> astFile, Path |-> path, PackagePath |-> packageDir])
    /\ packages' = IF Len(packageDir) = 0
                   THEN packages
                   ELSE CollectPackage(packages, packageDir, path, astFile)
    /\ nCollect' = nCollect + 1
    /\ firstName' = IF Len(packageDir) = 0 \/ packageDir \in DOMAIN firstName
                    THEN firstName
                    ELSE Put(firstName, packageDir, AstFiles[astFile].Name)
    /\ okRuns' = 0
    /\ mixed' = (mixed \/ nParse > 0)
    /\ answer' = NoAnswer
    /\ UNCHANGED <<uniqueDefinitions, uniqueNil, parsed, nParse, before>>

\* ------------------------------------------------------------- RangeFiles
\* The file names RangeFiles hands to its callback, one per entry of pkgs.files
\* (as a bag: name -> number of times), when the callback returns no error.
RangeFiles ==
    [p \in {files[f].Path : f \in DOMAIN files} |->
        Cardinality({f \in DOMAIN files : files[f].Path = p})]

\* ------------------------------------------------------------- ParseTypes
\* A plausible slip: continue whenever the full name is already indexed.
ContinueOnAnyHit(uniq, typeSpecDef) ==
    FullName(typeSpecDef) \in DOMAIN uniq

\* A plausible slip: never continue, the package's map is always rewritten.
ContinueNever(uniq, typeSpecDef) ==
    FALSE

\* The continue: the full name is indexed with the same PkgPath.
SameOwnerIndexed(uniq, typeSpecDef) ==
    /\ FullName(typeSpecDef) \in DOMAIN uniq
    /\ typeSpecDef.PkgPath = uniq[FullName(typeSpecDef)].PkgPath

\* pkgs.uniqueDefinitions after the look-up of the full name.
UniqueAfter(uniq, typeSpecDef) ==
    LET fullName == FullName(typeSpecDef) IN
    IF fullName \in DOMAIN uniq
    THEN IF typeSpecDef.PkgPath = uniq[fullName].PkgPath
         THEN uniq
         ELSE Delete(uniq, fullName)
    ELSE Put(uniq, fullName, typeSpecDef)

\* pkgs.packages[PkgPath].TypeDefinitions[Name()] = typeSpecDef
WriteTypeDefinition(pkgs, typeSpecDef) ==
    Put(pkgs, typeSpecDef.PkgPath,
        [pkgs[typeSpecDef.PkgPath] EXCEPT
            !.TypeDefinitions = Put(@, Name(typeSpecDef), typeSpecDef)])

\* parsedSchemas after one type spec
SchemasAfter(schemas, typeSpecDef, astFile) ==
    LET type == TypeSpecAt(astFile, typeSpecDef.TypeSpec).Type IN
    IF type.Kind = "Ident" /\ IsGolangPrimitiveType(type.Name)
    THEN Put(schemas, typeSpecDef,
             [PkgPath |-> typeSpecDef.PkgPath,
              Name |-> AstFiles[astFile].Name,
              Schema |-> TransToValidSchemeType(type.Name)])
    ELSE schemas

\* One type spec.  st is the call in progress: status "run", "error" (returned
\* nil and the error) or "panic" (nil pointer dereference), the two maps and
\* parsedSchemas.
ParseTypeSpec(st, astFile, pos, run) ==
    LET typeSpecDef == NewTypeSpecDef(files[astFile], astFile, pos, run)
        schemas == SchemasAfter(st.schemas, typeSpecDef, astFile)
        uniq == UniqueAfter(st.uniq, typeSpecDef)
    IN  IF uniqueNil
        THEN [st EXCEPT !.status = "error", !.schemas = schemas]
        ELSE IF SameOwnerIndexed(st.uniq, typeSpecDef)
        THEN [st EXCEPT !.uniq = uniq, !.schemas = schemas]
        ELSE IF typeSpecDef.PkgPath \notin DOMAIN st.pkgs
        THEN [st EXCEPT !.status = "panic", !.uniq = uniq, !.schemas = schemas]
        ELSE [st EXCEPT !.uniq = uniq, !.schemas = schemas,
                        !.pkgs = WriteTypeDefinition(st.pkgs, typeSpecDef)]

RECURSIVE ParseSpecs(_, _, _, _, _)
ParseSpecs(st, astFile, i, j, run) ==
    IF st.status # "run" \/ j > Len(AstFiles[astFile].Decls[i].Specs)
    THEN st
    ELSE ParseSpecs(ParseTypeSpec(st, astFile, <<i, j>>, run), astFile, i, j + 1, run)

RECURSIVE ParseDecls(_, _, _, _)
ParseDecls(st, astFile, i, run) ==
    IF st.status # "run" \/ i > Len(AstFiles[astFile].Decls)
    THEN st
    ELSE LET decl == AstFiles[astFile].Decls[i] IN
         IF decl.Kind # "GenDecl" \/ decl.Tok # "TYPE"
         THEN ParseDecls(st, astFile, i + 1, run)
         ELSE ParseDecls(ParseSpecs(st, astFile, i, 1, run), astFile, i + 1, run)

RECURSIVE ParseFiles(_, _, _, _)
ParseFiles(st, order, k, run) ==
    IF st.status # "run" \/ k > Len(order)
    THEN st
    ELSE ParseFiles(ParseDecls(st, order[k], 1, run), order, k + 1, run)

\* The orders in which range pkgs.files may visit the files.
Orders ==
    LET n == Cardinality(DOMAIN files) IN
    {o \in [1..n -> DOMAIN files] : \A i, j \in 1..n : o[i] = o[j] => i = j}

\* The whole call for one visiting order.
ParseTypesIn(order) ==
    ParseFiles([status |-> "run", uniq |-> uniqueDefinitions, pkgs |-> packages,
                schemas |-> EmptyMap], order, 1, nParse + 1)

ParseTypes ==
    /\ nParse < MaxParse
    /\ \E out \in {ParseTypesIn(order) : order \in Orders} :
         /\ uniqueDefinitions' = out.uniq
         /\ packages' = out.pkgs
         /\ parsed' = [status |-> IF out.status = "run" THEN "ok" ELSE out.status,
                       schemas |-> IF out.status = "run" THEN out.schemas ELSE EmptyMap]
         /\ okRuns' = IF out.status = "run" THEN okRuns + 1 ELSE 0
    /\ nParse' = nParse + 1
    /\ before' = packages
    /\ answer' = NoAnswer
    /\ UNCHANGED <<files, uniqueNil, nCollect, firstName, mixed>>

\* ------------------------------------------------------------- FindTypeSpec
\* A nil *TypeSpecDef, a nil *ast.File, and a nil pointer dereference.
NilTypeSpecDef == [nil |-> TRUE]
NilFile == "nil"
Panic == [panic |-> TRUE]

findTypeSpec(pkgPath, typeName) ==
    IF pkgPath \in DOMAIN packages /\ typeName \in DOMAIN packages[pkgPath].TypeDefinitions
    THEN packages[pkgPath].TypeDefinitions[typeName]
    ELSE NilTypeSpecDef

\* The first loop over file.Imports, from import i on: the path returned, or
\* Empty with hasAnonymousPkg when the loop ends.
RECURSIVE MatchNamed(_, _, _, _)
MatchNamed(pkgName, imports, i, hasAnonymousPkg) ==
    IF i > Len(imports)
    THEN [found |-> FALSE, path |-> Empty, hasAnonymousPkg |-> hasAnonymousPkg]
    ELSE LET imp == imports[i]
             path == Trim(imp.Path, Quote)
         IN  IF imp.Name # Nil
             THEN IF imp.Name = pkgName
                  THEN [found |-> TRUE, path |-> path, hasAnonymousPkg |-> hasAnonymousPkg]
                  ELSE MatchNamed(pkgName, imports, i + 1,
                                  hasAnonymousPkg \/ imp.Name = Blank)
             ELSE IF path \in DOMAIN packages /\ packages[path].Name = pkgName
                  THEN [found |-> TRUE, path |-> path, hasAnonymousPkg |-> hasAnonymousPkg]
                  ELSE MatchNamed(pkgName, imports, i + 1, hasAnonymousPkg)

\* The second loop over file.Imports: the "_" imports.
RECURSIVE MatchAnonymous(_, _, _)
MatchAnonymous(pkgName, imports, i) ==
    IF i > Len(imports)
    THEN Empty
    ELSE LET imp == imports[i]
             path == Trim(imp.Path, Quote)
         IN  IF /\ imp.Name = Blank
                /\ path \in DOMAIN packages
                /\ packages[path].Name = pkgName
             THEN path
             ELSE MatchAnonymous(pkgName, imports, i + 1)

findPackagePathFromImports(pkgName, file) ==
    IF file = NilFile
    THEN Empty
    ELSE LET name == IF ContainsRune(pkgName, Dot) THEN Split(pkgName, Dot)[1] ELSE pkgName
             first == MatchNamed(name, AstFiles[file].Imports, 1, FALSE)
         IN  IF first.found
             THEN first.path
             ELSE IF first.hasAnonymousPkg
             THEN MatchAnonymous(name, AstFiles[file].Imports, 1)
             ELSE Empty

isAliasPkgName(file, pkgName) ==
    \E i \in 1..Len(AstFiles[file].Imports) :
        /\ AstFiles[file].Imports[i].Name # Nil
        /\ AstFiles[file].Imports[i].Name = pkgName

\* The first dot-import, from import i on, whose package declares typeName.
RECURSIVE MatchDotImport(_, _, _)
MatchDotImport(typeName, imports, i) ==
    IF i > Len(imports)
    THEN NilTypeSpecDef
    ELSE LET typeDef == findTypeSpec(Trim(imports[i].Path, Quote), typeName) IN
         IF imports[i].Name = <<Dot>> /\ typeDef # NilTypeSpecDef
         THEN typeDef
         ELSE MatchDotImport(typeName, imports, i + 1)

\* The branch of a typeName that holds a '.'.
FindQualified(typeName, file) ==
    LET parts == Split(typeName, Dot) IN
    IF ~isAliasPkgName(file, parts[1]) /\ typeName \in DOMAIN uniqueDefinitions
    THEN uniqueDefinitions[typeName]
    ELSE LET fromImports == findPackagePathFromImports(parts[1], file)
             own == Len(fromImports) = 0 /\ parts[1] = AstFiles[file].Name
         IN  IF own /\ file \notin DOMAIN files
             THEN Panic
             ELSE LET pkgPath == IF own THEN files[file].PackagePath ELSE fromImports
                      synthetic == <<"p", "k", "g", "/">> \o parts[1]
                  IN  IF /\ pkgPath = Empty
                         /\ synthetic \in DOMAIN packages
                         /\ parts[2] \in DOMAIN packages[synthetic].TypeDefinitions
                      THEN packages[synthetic].TypeDefinitions[parts[2]]
                      ELSE findTypeSpec(pkgPath, parts[2])

\* The branch of a typeName without a '.'.
FindUnqualified(typeName, file) ==
    LET key == fullTypeName(AstFiles[file].Name, typeName) IN
    IF key \in DOMAIN uniqueDefinitions
    THEN uniqueDefinitions[key]
    ELSE IF file \notin DOMAIN files
    THEN Panic
    ELSE IF findTypeSpec(files[file].PackagePath, typeName) # NilTypeSpecDef
    THEN findTypeSpec(files[file].PackagePath, typeName)
    ELSE MatchDotImport(typeName, AstFiles[file].Imports, 1)

\* A plausible slip: without a file, a name the index does not hold is looked up
\* in the packages by their Name.
FindTypeSpecNilFileByPackage(typeName, file) ==
    IF IsGolangPrimitiveType(typeName)
    THEN NilTypeSpecDef
    ELSE IF file = NilFile
    THEN IF typeName \in DOMAIN uniqueDefinitions
         THEN uniqueDefinitions[typeName]
         ELSE LET parts == Split(typeName, Dot)
                  owners == {P \in DOMAIN packages :
                                /\ Len(parts) = 2
                                /\ packages[P].Name = parts[1]
                                /\ parts[2] \in DOMAIN packages[P].TypeDefinitions}
              IN  IF owners = {}
                  THEN NilTypeSpecDef
                  ELSE packages[CHOOSE P \in owners : TRUE].TypeDefinitions[parts[2]]
    ELSE IF ContainsRune(typeName, Dot)
    THEN FindQualified(typeName, file)
    ELSE FindUnqualified(typeName, file)

\* A plausible slip: the primitive names are not turned away.
FindTypeSpecNoPrimitiveCheck(typeName, file) ==
    IF file = NilFile
    THEN IF typeName \in DOMAIN uniqueDefinitions
         THEN uniqueDefinitions[typeName]
         ELSE NilTypeSpecDef
    ELSE IF ContainsRune(typeName, Dot)
    THEN FindQualified(typeName, file)
    ELSE FindUnqualified(typeName, file)

FindTypeSpec(typeName, file) ==
    IF IsGolangPrimitiveType(typeName)
    THEN NilTypeSpecDef
    ELSE IF file = NilFile
    THEN IF typeName \in DOMAIN uniqueDefinitions
         THEN uniqueDefinitions[typeName]
         ELSE NilTypeSpecDef
    ELSE IF ContainsRune(typeName, Dot)
    THEN FindQualified(typeName, file)
    ELSE FindUnqualified(typeName, file)

\* ------------------------------------------------------------- specification
\* NewPackagesDefinitions(), or a PackagesDefinitions literal whose maps are nil.
Init ==
    /\ files = EmptyMap
    /\ packages = EmptyMap
    /\ uniqueDefinitions = EmptyMap
    /\ uniqueNil \in BOOLEAN
    /\ parsed = [status |-> "none", schemas |-> EmptyMap]
    /\ nCollect = 0
    /\ nParse = 0
    /\ firstName = EmptyMap
    /\ okRuns = 0
    /\ mixed = FALSE
    /\ before = EmptyMap
    /\ answer = NoAnswer

Collect ==
    \E in \in CollectInputs : CollectAstFile(in[1], in[2], in[3])

Next ==
    \/ Collect
    \/ ParseTypes

Spec == Init /\ [][Next]_vars

\* ------------------------------------------------------------- the callers of FindTypeSpec
\* The calls of FindTypeSpec that are followed: a bare name in its own file and
\* through a dot-import, a qualified name through a "_" import and in a file
\* collected with an empty packageDir, and a qualified name without a file.
Queries ==
    { <<User, "u1">>,
      <<User, "u6">>,
      <<fullTypeName(models, User), "u3">>,
      <<fullTypeName(handlers, User), "u5">>,
      <<fullTypeName(models, Level), NilFile>> }

\* A plausible slip: a definition found in a package is kept in the index
\* under the name that was asked for.
ResolveMemoizing(typeName, file) ==
    /\ LET out == FindTypeSpec(typeName, file) IN
       /\ answer' = [typeName |-> typeName, file |-> file, out |-> out]
       /\ uniqueDefinitions' = IF "PkgPath" \in DOMAIN out
                               THEN Put(uniqueDefinitions, typeName, out)
                               ELSE uniqueDefinitions
    /\ UNCHANGED <<files, packages, uniqueNil, parsed, nCollect, nParse,
                   firstName, okRuns, mixed, before>>

\* One call FindTypeSpec(typeName, file).
Resolve(typeName, file) ==
    /\ answer' = [typeName |-> typeName, file |-> file,
                  out |-> FindTypeSpec(typeName, file)]
    /\ UNCHANGED <<files, packages, uniqueDefinitions, uniqueNil, parsed, nCollect,
                   nParse, firstName, okRuns, mixed, before>>

Query ==
    \E q \in Queries : Resolve(q[1], q[2])

\* The calls that build the definitions come first and the look-ups after them.
Build ==
    /\ answer = NoAnswer
    /\ Next

NextQuery ==
    \/ Build
    \/ Query

SpecQuery == Init /\ [][NextQuery]_vars

\* ------------------------------------------------------------- vocabulary of the properties
\* The positions of the type specs of a file.
TypeSpecsOf(astFile) ==
    UNION {{<<i, j>> : j \in 1..Len(AstFiles[astFile].Decls[i].Specs)} :
        i \in {k \in 1..Len(AstFiles[astFile].Decls) :
            /\ AstFiles[astFile].Decls[k].Kind = "GenDecl"
            /\ AstFiles[astFile].Decls[k].Tok = "TYPE"}}

\* The type names a collected file declares.
DeclaredNames(astFile) ==
    {TypeSpecAt(astFile, pos).Name : pos \in TypeSpecsOf(astFile)}

ShortNames == {AstFiles[f].Name : f \in Handles}
TypeNames == UNION {DeclaredNames(f) : f \in Handles}

\* The package paths that declare typeName in a collected file named shortName.
Competitors(shortName, typeName) ==
    {files[f].PackagePath : f \in {g \in DOMAIN files :
        AstFiles[g].Name = shortName /\ typeName \in DeclaredNames(g)}}

\* The package paths with a collected file that declares typeName.
Declares(pkgPath, typeName) ==
    \E f \in DOMAIN files : files[f].PackagePath = pkgPath /\ typeName \in DeclaredNames(f)

\* The last operation was a ParseTypes call that returned normally.
Completed == okRuns >= 1

\* The collection was built first and ParseTypes then ran once, to completion.
FirstPass == okRuns = 1 /\ nParse = 1

\* What the Go compiler accepts: the files of a package path share one Name,
\* no two of them declare the same type name, and no package path is empty.
WellFormed ==
    \A f, g \in DOMAIN files :
        /\ Len(files[f].PackagePath) > 0
        /\ (f # g /\ files[f].PackagePath = files[g].PackagePath) =>
            /\ AstFiles[f].Name = AstFiles[g].Name
            /\ DeclaredNames(f) \cap DeclaredNames(g) = {}

\* d is a definition owned by pkgPath.
OwnedBy(d, pkgPath) ==
    "PkgPath" \in DOMAIN d /\ d.PkgPath = pkgPath

\* No full name is declared under two package paths.
NoConflict ==
    \A s \in ShortNames, n \in TypeNames : Cardinality(Competitors(s, n)) <= 1

\* ------------------------------------------------------------- C1
\* C1: after ParseTypes has run to completion over a collection, a full name
\* (short name S, type name N) that two or more distinct package paths declare
\* has no entry in uniqueDefinitions.  Stated for the collections the Go
\* compiler accepts, where a package declares a name once.
C1_CollisionRemovesKey ==
    (FirstPass /\ WellFormed) =>
        \A s \in ShortNames, n \in TypeNames :
            Cardinality(Competitors(s, n)) >= 2 =>
                fullTypeName(s, n) \notin DOMAIN uniqueDefinitions

\* ------------------------------------------------------------- C2
\* C2: after ParseTypes, for a collected file ctx with an unnamed import of
\* package path P, where P's package is named q and declares the (non-primitive)
\* type N, FindTypeSpec("q.N", ctx) is the definition owned by P.  Stated for
\* the collections the Go compiler accepts.
C2_UnaliasedImportResolves ==
    (FirstPass /\ WellFormed) =>
        \A ctx \in DOMAIN files, n \in TypeNames :
            \A i \in 1..Len(AstFiles[ctx].Imports) :
                LET imp == AstFiles[ctx].Imports[i]
                    P == Trim(imp.Path, Quote)
                IN  (/\ imp.Name = Nil
                     /\ P \in DOMAIN packages
                     /\ Declares(P, n)
                     /\ ~IsGolangPrimitiveType(n))
                    => OwnedBy(FindTypeSpec(fullTypeName(packages[P].Name, n), ctx), P)

\* ------------------------------------------------------------- C3
\* C3: after ParseTypes, for a collected file ctx of package path P whose
\* TypeDefinitions hold the (non-primitive) name N, FindTypeSpec("N", ctx) is a
\* definition owned by P.  Stated for the collections the Go compiler accepts.
C3_LocalMapAuthoritative ==
    (FirstPass /\ WellFormed) =>
        \A ctx \in DOMAIN files, n \in TypeNames :
            LET P == files[ctx].PackagePath IN
            (/\ P \in DOMAIN packages
             /\ n \in DOMAIN packages[P].TypeDefinitions
             /\ ~IsGolangPrimitiveType(n))
            => OwnedBy(FindTypeSpec(n, ctx), P)

\* ------------------------------------------------------------- C4
\* C4: after a ParseTypes call that returned normally, every type spec named N
\* of every file collected under a non-empty package path P has an entry under
\* N in P's TypeDefinitions, owned by P.
C4_LocalWriteUnconditional ==
    Completed =>
        \A f \in DOMAIN files : \A n \in DeclaredNames(f) :
            LET P == files[f].PackagePath IN
            Len(P) > 0 =>
                /\ P \in DOMAIN packages
                /\ n \in DOMAIN packages[P].TypeDefinitions
                /\ packages[P].TypeDefinitions[n].PkgPath = P

\* C4 witness: the call completed, a colliding full name was removed from
\* uniqueDefinitions, and both competitors are in their packages' maps.
C4_Witness ==
    /\ Completed
    /\ \E f, g \in DOMAIN files : \E n \in DeclaredNames(f) \cap DeclaredNames(g) :
        /\ files[f].PackagePath # files[g].PackagePath
        /\ AstFiles[f].Name = AstFiles[g].Name
        /\ fullTypeName(AstFiles[f].Name, n) \notin DOMAIN uniqueDefinitions
        /\ OwnedBy(findTypeSpec(files[f].PackagePath, n), files[f].PackagePath)
        /\ OwnedBy(findTypeSpec(files[g].PackagePath, n), files[g].PackagePath)

\* ------------------------------------------------------------- C5
\* C5: with uniqueDefinitions initialized, every ParseTypes call returns its
\* map normally, whatever was collected.
C5_ParseTypesCompletes ==
    ~uniqueNil => parsed.status \in {"none", "ok"}

\* ------------------------------------------------------------- C6
\* C6: with uniqueDefinitions nil, every ParseTypes call returns the error, and
\* no package's TypeDefinitions is ever written.
C6_NilIndexAlwaysErrors ==
    uniqueNil =>
        /\ parsed.status \in {"none", "error"}
        /\ \A P \in DOMAIN packages : DOMAIN packages[P].TypeDefinitions = {}

\* ------------------------------------------------------------- C7
\* C7: pkgs.files holds one file per file path, and RangeFiles hands each file
\* path to its callback at most once.
C7_OneFilePerPath ==
    /\ \A f, g \in DOMAIN files : files[f].Path = files[g].Path => f = g
    /\ \A p \in DOMAIN RangeFiles : RangeFiles[p] <= 1

\* ------------------------------------------------------------- C8
\* C8: the Name of the package of every non-empty package path is the Name of
\* the first file collected under that path, through every later
\* CollectAstFile and ParseTypes call.
C8_NameFromFirstFile ==
    /\ DOMAIN packages = DOMAIN firstName
    /\ \A P \in DOMAIN packages : packages[P].Name = firstName[P]

\* C8 witness: after ParseTypes, a package holds a file whose Name is not the
\* package's.
C8_Witness ==
    /\ Completed
    /\ \E P \in DOMAIN packages : \E path \in DOMAIN packages[P].Files :
        AstFiles[packages[P].Files[path]].Name # packages[P].Name

\* ------------------------------------------------------------- C9
\* C9: for a collection built before the first ParseTypes call and without
\* conflicting full names, a ParseTypes call that follows a completed one
\* leaves the TypeDefinitions of every package with the same names and the same
\* definitions (the very same instances).
C9_SecondRunIdempotent ==
    (okRuns >= 2 /\ ~mixed /\ NoConflict) =>
        /\ DOMAIN packages = DOMAIN before
        /\ \A P \in DOMAIN packages :
            packages[P].TypeDefinitions = before[P].TypeDefinitions

\* C9 witness: a second completed run over a conflict-free collection that
\* declares types in two packages.
C9_Witness ==
    /\ okRuns >= 2
    /\ ~mixed
    /\ NoConflict
    /\ \E P, Q \in DOMAIN packages :
        /\ P # Q
        /\ DOMAIN packages[P].TypeDefinitions # {}
        /\ DOMAIN packages[Q].TypeDefinitions # {}

\* ------------------------------------------------------------- C10
\* C10: over a fixed collection, the first ParseTypes call leaves the same
\* uniqueDefinitions and the same packages for every order in which range
\* visits pkgs.files.  Stated for the collections the Go compiler accepts and
\* the orders in which the call returns normally.
C10_OrderIndependent ==
    (nParse = 0 /\ WellFormed) =>
        \A o1, o2 \in Orders :
            LET r1 == ParseTypesIn(o1)
                r2 == ParseTypesIn(o2)
            IN  (r1.status = "run" /\ r2.status = "run") =>
                    (r1.uniq = r2.uniq /\ r1.pkgs = r2.pkgs)

\* ------------------------------------------------------------- C11
\* C11: after ParseTypes, for a collected file ctx whose own package does not
\* declare the (non-primitive) name N and which has a dot-import of package
\* path P that declares N, FindTypeSpec("N", ctx) is the definition owned by P.
\* Stated for the collections the Go compiler accepts.
C11_DotImportResolves ==
    (FirstPass /\ WellFormed) =>
        \A ctx \in DOMAIN files, n \in TypeNames :
            \A i \in 1..Len(AstFiles[ctx].Imports) :
                LET imp == AstFiles[ctx].Imports[i]
                    P == Trim(imp.Path, Quote)
                IN  (/\ imp.Name = <<Dot>>
                     /\ ~Declares(files[ctx].PackagePath, n)
                     /\ Declares(P, n)
                     /\ ~IsGolangPrimitiveType(n))
                    => OwnedBy(FindTypeSpec(n, ctx), P)

\* ------------------------------------------------------------- C12
\* C12: after ParseTypes, for a collected file ctx with a "_" import of a
\* collected package path P named q that declares the (non-primitive) name N,
\* where q is no alias of ctx and not the name of the package of an unnamed
\* import of ctx, FindTypeSpec("q.N", ctx) is the definition owned by P.
\* Stated for the collections the Go compiler accepts.
C12_AnonymousImportResolves ==
    (FirstPass /\ WellFormed) =>
        \A ctx \in DOMAIN files, n \in TypeNames :
            \A i \in 1..Len(AstFiles[ctx].Imports) :
                LET imp == AstFiles[ctx].Imports[i]
                    P == Trim(imp.Path, Quote)
                IN  (/\ imp.Name = Blank
                     /\ P \in DOMAIN packages
                     /\ ~isAliasPkgName(ctx, packages[P].Name)
                     /\ \A j \in 1..Len(AstFiles[ctx].Imports) :
                            LET other == AstFiles[ctx].Imports[j]
                                Q == Trim(other.Path, Quote)
                            IN  other.Name = Nil =>
                                    ~(Q \in DOMAIN packages
                                      /\ packages[Q].Name = packages[P].Name)
                     /\ Declares(P, n)
                     /\ ~IsGolangPrimitiveType(n))
                    => OwnedBy(FindTypeSpec(fullTypeName(packages[P].Name, n), ctx), P)

\* ------------------------------------------------------------- C13
\* C13: in every state, every definition that uniqueDefinitions holds, owned by
\* package path P and named N, is the very instance that P's TypeDefinitions
\* hold under N.
C13_OneInstancePerName ==
    \A k \in DOMAIN uniqueDefinitions :
        LET d == uniqueDefinitions[k] IN
        findTypeSpec(d.PkgPath, Name(d)) = d

\* ------------------------------------------------------------- references
\* The names a caller may ask for: bare names, primitive names, and names
\* qualified by a package name, by an unknown qualifier or by nothing.
Qualifiers == ShortNames \cup {<<"x">>, Empty}
QualifiedRefs == {fullTypeName(q, n) : q \in Qualifiers, n \in TypeNames \cup {Empty}}
Refs == TypeNames \cup PrimitiveNames \cup QualifiedRefs \cup {Empty}

\* ------------------------------------------------------------- C14
\* C14: without a file, FindTypeSpec(r, nil) is the entry of uniqueDefinitions
\* under the literal r, and nil when there is none, for every reference r and
\* in every state.
C14_NilFileIsIndexLookup ==
    \A r \in Refs :
        FindTypeSpec(r, NilFile) =
            IF r \in DOMAIN uniqueDefinitions THEN uniqueDefinitions[r] ELSE NilTypeSpecDef

\* C14 witness: after ParseTypes the index holds one full name and has lost
\* another to a collision; the lost one is still in a package of that name and
\* is not found without a file.
C14_Witness ==
    /\ Completed
    /\ \E r \in QualifiedRefs :
        /\ r \in DOMAIN uniqueDefinitions
        /\ FindTypeSpec(r, NilFile) = uniqueDefinitions[r]
    /\ \E P \in DOMAIN packages, n \in TypeNames :
        /\ n \in DOMAIN packages[P].TypeDefinitions
        /\ fullTypeName(packages[P].Name, n) \notin DOMAIN uniqueDefinitions
        /\ FindTypeSpec(fullTypeName(packages[P].Name, n), NilFile) = NilTypeSpecDef

\* ------------------------------------------------------------- C15
\* C15: FindTypeSpec of a primitive name is nil, with no file and with every
\* file, in every state.
C15_PrimitiveNotFound ==
    \A p \in PrimitiveNames, file \in Handles \cup {NilFile} :
        FindTypeSpec(p, file) = NilTypeSpecDef

\* C15 witness: after ParseTypes a package declares a type with a primitive
\* name, the index holds it under the short name of a collected file, and that
\* file asks for it.
C15_Witness ==
    /\ Completed
    /\ \E p \in PrimitiveNames, ctx \in DOMAIN files :
        /\ fullTypeName(AstFiles[ctx].Name, p) \in DOMAIN uniqueDefinitions
        /\ findTypeSpec(files[ctx].PackagePath, p) # NilTypeSpecDef
        /\ FindTypeSpec(p, ctx) = NilTypeSpecDef

\* ------------------------------------------------------------- C16
\* The path of the first import of file, from import i on, that is named q.
RECURSIVE FirstNamed(_, _, _)
FirstNamed(q, imports, i) ==
    IF i > Len(imports)
    THEN Empty
    ELSE IF imports[i].Name = q
    THEN Trim(imports[i].Path, Quote)
    ELSE FirstNamed(q, imports, i + 1)

\* file has an import named q.
HasNamed(file, q) ==
    \E i \in 1..Len(AstFiles[file].Imports) : AstFiles[file].Imports[i].Name = q

\* C16: for a collected file with an import named q, findPackagePathFromImports
\* of q is the path of that import, wherever in the import list an import
\* without a name whose package is named q stands.
C16_NamedImportFirst ==
    \A ctx \in DOMAIN files, q \in ShortNames :
        HasNamed(ctx, q) =>
            findPackagePathFromImports(q, ctx) = FirstNamed(q, AstFiles[ctx].Imports, 1)

\* ------------------------------------------------------------- C17
\* The package path that FindTypeSpec works out for the qualifier q in a
\* collected file: the imports first, then the file's own package.
QualifierPath(q, file) ==
    LET fromImports == findPackagePathFromImports(q, file) IN
    IF Len(fromImports) = 0 /\ q = AstFiles[file].Name
    THEN files[file].PackagePath
    ELSE fromImports

\* The qualifier q gives no package path in file, and there is no "pkg/"
\* package of q.
NoPath(q, file) ==
    /\ (<<"p", "k", "g", "/">> \o q) \notin DOMAIN packages
    /\ QualifierPath(q, file) = Empty

\* The name q.n misses the uniqueDefinitions shortcut in file.
NoShortcut(q, n, file) ==
    fullTypeName(q, n) \notin DOMAIN uniqueDefinitions \/ isAliasPkgName(file, q)

\* C17: in every state pkgs.packages has no record under the empty path, so
\* findTypeSpec("", n) is nil for every n; and FindTypeSpec of a qualified name
\* in a collected file is nil when the name misses the shortcut, its qualifier
\* gives no path and no "pkg/" package exists.
C17_NoEmptyPathRecord ==
    /\ Empty \notin DOMAIN packages
    /\ \A n \in TypeNames \cup PrimitiveNames \cup {Empty} :
        findTypeSpec(Empty, n) = NilTypeSpecDef
    /\ \A ctx \in DOMAIN files, q \in ShortNames \cup {<<"x">>} :
        NoPath(q, ctx) =>
            \A n \in TypeNames :
                NoShortcut(q, n, ctx) =>
                    FindTypeSpec(fullTypeName(q, n), ctx) = NilTypeSpecDef

\* C17 witness: after ParseTypes a file collected with an empty packageDir asks
\* for a name qualified by its own package name; some package declares the
\* bare name, the qualifier gives the empty path, and the answer is nil.
C17_Witness ==
    /\ Completed
    /\ \E ctx \in DOMAIN files, n \in TypeNames :
        LET r == fullTypeName(AstFiles[ctx].Name, n) IN
        /\ files[ctx].PackagePath = Empty
        /\ \E P \in DOMAIN packages : n \in DOMAIN packages[P].TypeDefinitions
        /\ NoPath(AstFiles[ctx].Name, ctx)
        /\ NoShortcut(AstFiles[ctx].Name, n, ctx)
        /\ FindTypeSpec(r, ctx) = NilTypeSpecDef

\* ------------------------------------------------------------- C18
\* C18: a FindTypeSpec call leaves pkgs.files, pkgs.packages and
\* pkgs.uniqueDefinitions as they were, and the same call made again, with
\* nothing else in between, returns what it returned before.
C18_ResolveReadOnly ==
    [][answer' # NoAnswer =>
        /\ UNCHANGED <<files, packages, uniqueDefinitions, uniqueNil>>
        /\ (/\ answer # NoAnswer
            /\ answer.typeName = answer'.typeName
            /\ answer.file = answer'.file) => answer'.out = answer.out]_vars

\* C18 witness: after ParseTypes a FindTypeSpec call has returned a definition
\* that it found in a package and not in the index.
C18_Witness ==
    /\ Completed
    /\ answer # NoAnswer
    /\ "PkgPath" \in DOMAIN answer.out
    /\ answer.typeName \notin DOMAIN uniqueDefinitions

\* ------------------------------------------------------------- C19
\* C19: FindTypeSpec returns a definition or nil and never panics, for every
\* reference and every file, collected or not, in every state.
C19_MissIsAReturnValue ==
    \A file \in Handles, r \in Refs :
        FindTypeSpec(r, file) # Panic

\* ------------------------------------------------------------- C20
\* C20: when the last ParseTypes call returned normally, every key d of the
\* map it returned is the instance that the TypeDefinitions of d's package
\* hold under d's name.
C20_SchemaKeysAreRegistered ==
    parsed.status = "ok" =>
        \A d \in DOMAIN parsed.schemas :
            findTypeSpec(d.PkgPath, Name(d)) = d

====
